---- MODULE Spec2Model ----
(***************************************************************************)
(* Model of the macOS video screensaver generator (src/main.go): the build *)
(* strategy selection, the two bundle pipelines, the filesystem helpers    *)
(* and the text templates.                                                 *)
(*                                                                         *)
(* Text is a sequence of tokens.  A token is a string: a single character  *)
(* of a display name, or a literal fragment of the program text such as    *)
(* ".saver" or "Contents".  A path is a sequence of components, the root   *)
(* being <<>>, and a component is a non-empty text without "/".            *)
(***************************************************************************)
EXTENDS Integers, Sequences, FiniteSets, TLC

\* ------------------------------------------------------------------ bounds

\* Every display name of at most this many characters is drawn for a request.
MaxNameLen == 1

\* ------------------------------------------------------------------ text

\* The characters display names are drawn from: a letter with a lower-case
\* form, a space, a tab (whitespace that is not a space), the path
\* separator and the dot.
NameChars == {"A", " ", "\t", "/", "."}

\* Longer display names drawn as well: the default of the -name flag
\* (main.go 46), a name with an inner space, names wrapped in whitespace,
\* a name with an inner tab, and names with path separators and "..".
SampleNames ==
    {<<"M", "y", "S", "c", "r", "e", "e", "n", "s", "a", "v", "e", "r">>,
     <<"M", "y", " ", "V", "i", "d", "e", "o">>,
     <<" ", "A", "\t">>,
     <<" ", "\t">>,
     <<"A", "\t", "A">>,
     <<"A", "/", "A">>,
     <<".", ".", "/">>,
     <<".", ".", "/", "A">>}

Names == UNION {[1..n -> NameChars] : n \in 0..MaxNameLen} \cup SampleNames

\* unicode.IsSpace on the characters of the model.
IsSpace(c) == c \in {" ", "\t"}

RECURSIVE TrimLeft(_)
TrimLeft(s) ==
    IF s # <<>> /\ IsSpace(Head(s)) THEN TrimLeft(Tail(s)) ELSE s

RECURSIVE TrimRight(_)
TrimRight(s) ==
    IF s # <<>> /\ IsSpace(s[Len(s)]) THEN TrimRight(SubSeq(s, 1, Len(s) - 1)) ELSE s

\* strings.TrimSpace
TrimSpace(s) == TrimRight(TrimLeft(s))

DefaultName == <<"S", "c", "r", "e", "e", "n", "s", "a", "v", "e", "r">>

\* A plausible slip: only the empty name is defaulted, whitespace is kept.
sanitizeNameNoTrim(s) ==
    IF s = <<>> THEN DefaultName ELSE s

sanitizeName(s) ==
    IF TrimSpace(s) = <<>> THEN DefaultName ELSE TrimSpace(s)

\* unicode.ToLower on one character.
LowerChar(c) ==
    CASE c = "A" -> "a"
      [] c = "M" -> "m"
      [] c = "S" -> "s"
      [] c = "V" -> "v"
      [] OTHER -> c

\* strings.ToLower
ToLower(s) == [i \in 1..Len(s) |-> LowerChar(s[i])]

\* strings.ReplaceAll(s, old, "") for a one-character old.
ReplaceAll(s, old) == SelectSeq(s, LAMBDA c : c # old)

\* ------------------------------------------------------------------ paths

RECURSIVE SplitFrom(_, _, _)
SplitFrom(s, acc, cur) ==
    IF s = <<>> THEN Append(acc, cur)
    ELSE IF Head(s) = "/" THEN SplitFrom(Tail(s), Append(acc, cur), <<>>)
    ELSE SplitFrom(Tail(s), acc, Append(cur, Head(s)))

\* The elements of a slash-separated text (empty elements included).
Split(s) == SplitFrom(s, <<>>, <<>>)

RECURSIVE CleanOnto(_, _)
CleanOnto(stack, comps) ==
    IF comps = <<>> THEN stack
    ELSE LET c == Head(comps) IN
         IF c = <<>> \/ c = <<".">> THEN CleanOnto(stack, Tail(comps))
         ELSE IF c = <<".", ".">> THEN
             CleanOnto(IF stack = <<>> THEN <<>> ELSE SubSeq(stack, 1, Len(stack) - 1),
                       Tail(comps))
         ELSE CleanOnto(Append(stack, c), Tail(comps))

\* filepath.Join(base, rel) for a clean absolute base: the two are joined by
\* a separator and the result is cleaned (filepath.Clean).
Join(base, rel) == CleanOnto(base, Split(rel))

\* filepath.Dir of a clean absolute path.
Dir(p) == IF p = <<>> THEN <<>> ELSE SubSeq(p, 1, Len(p) - 1)

IsPrefix(p, q) == Len(p) <= Len(q) /\ SubSeq(q, 1, Len(p)) = p

\* q lies at or under p.
Within(p, q) == IsPrefix(p, q)

\* ------------------------------------------------------------------ files

\* A component made of one literal fragment of the program text.
Lit(s) == <<s>>

DirNode == [kind |-> "dir", content |-> <<>>, exec |-> TRUE]

FileNode(data, x) == [kind |-> "file", content |-> data, exec |-> x]

Exists(f, p) == p \in DOMAIN f

IsDirAt(f, p) == p \in DOMAIN f /\ f[p].kind = "dir"

IsFileAt(f, p) == p \in DOMAIN f /\ f[p].kind = "file"

Prefixes(p) == {SubSeq(p, 1, i) : i \in 0..Len(p)}

\* The result of a filesystem call: err is "" for nil, else the failing
\* system call; path is the path the error names.
Ok(f) == [err |-> "", path |-> <<>>, fs |-> f]

Fail(e, p, f) == [err |-> e, path |-> p, fs |-> f]

\* The filesystem f with node n at path p.
Put(f, p, n) == [q \in DOMAIN f \cup {p} |-> IF q = p THEN n ELSE f[q]]

\* os.MkdirAll(p, 0755): every missing directory on the way to p is made;
\* an existing directory is no error, a file on the way is.  fail injects
\* an error of the operating system (permissions, full disk).
MkdirAll(f, p, fail) ==
    IF fail THEN Fail("mkdir", p, f)
    ELSE IF \E q \in Prefixes(p) : IsFileAt(f, q) THEN Fail("mkdir", p, f)
    ELSE Ok([q \in DOMAIN f \cup Prefixes(p) |-> IF q \in DOMAIN f THEN f[q] ELSE DirNode])

\* os.Create(p): O_RDWR|O_CREATE|O_TRUNC with mode 0666 before umask.  A new
\* file has no execute bit; an existing file is truncated and keeps its mode.
Create(f, p, fail) ==
    IF fail \/ ~IsDirAt(f, Dir(p)) \/ IsDirAt(f, p) \/ p = <<>> THEN Fail("open", p, f)
    ELSE Ok(Put(f, p, FileNode(<<>>, IF Exists(f, p) THEN f[p].exec ELSE FALSE)))

\* os.WriteFile(p, data, 0644): create or truncate, then write data.
WriteFile(f, p, data, fail) ==
    LET c == Create(f, p, fail) IN
    IF c.err # "" THEN c
    ELSE Ok(Put(c.fs, p, FileNode(data, c.fs[p].exec)))

\* os.Chmod(p, 0755)
Chmod(f, p, fail) ==
    IF fail \/ ~Exists(f, p) THEN Fail("chmod", p, f)
    ELSE Ok(Put(f, p, [f[p] EXCEPT !.exec = TRUE]))

\* os.RemoveAll(p): p and everything under it; a missing p is no error.
RemoveAll(f, p) == [q \in {r \in DOMAIN f : ~IsPrefix(p, r)} |-> f[q]]

\* The faults that can be injected into one copyFile call, by the system
\* call that fails; "short" is a copy that fails after the first byte.
FileFaults == {"none", "open", "mkdir", "create", "copy", "short"}

\* A plausible slip: the destination is created before the source is opened.
copyFileCreateFirst(f, src, dst, fault) ==
    LET m == MkdirAll(f, Dir(dst), fault = "mkdir") IN
    IF m.err # "" THEN m
    ELSE LET c == Create(m.fs, dst, fault = "create") IN
         IF c.err # "" THEN c
         ELSE IF fault = "open" \/ ~Exists(c.fs, src) THEN Fail("open", src, c.fs)
         ELSE Ok(Put(c.fs, dst, FileNode(c.fs[src].content, c.fs[dst].exec)))

\* copyFile(src, dst), main.go 221-231.  The source is opened first; the
\* bytes are read after the destination was created, so a copy of a file
\* onto itself reads the file it has just truncated.
copyFile(f, src, dst, fault) ==
    IF fault = "open" \/ ~Exists(f, src) THEN Fail("open", src, f)
    ELSE LET m == MkdirAll(f, Dir(dst), fault = "mkdir") IN
         IF m.err # "" THEN m
         ELSE LET c == Create(m.fs, dst, fault = "create") IN
              IF c.err # "" THEN c
              ELSE LET data == c.fs[src].content IN
                   IF fault = "copy" \/ c.fs[src].kind = "dir" THEN Fail("read", src, c.fs)
                   ELSE IF fault = "short" THEN
                       Fail("write", dst,
                            Put(c.fs, dst, FileNode(SubSeq(data, 1, IF data = <<>> THEN 0 ELSE 1),
                                                    c.fs[dst].exec)))
                   ELSE Ok(Put(c.fs, dst, FileNode(data, c.fs[dst].exec)))

\* The names a directory walk can meet, in the byte order filepath.WalkDir
\* sorts the entries of a directory by.
WalkNames ==
    <<"Contents", "Info.plist", "MacOS", "Resources", "VideoSaver", "old.txt", "payload.mp4">>

NameRank(c) ==
    IF \E i \in 1..Len(WalkNames) : c = Lit(WalkNames[i])
    THEN CHOOSE i \in 1..Len(WalkNames) : c = Lit(WalkNames[i])
    ELSE 0

RECURSIVE RelLeq(_, _)
RelLeq(a, b) ==
    IF a = <<>> THEN TRUE
    ELSE IF b = <<>> THEN FALSE
    ELSE IF NameRank(Head(a)) # NameRank(Head(b)) THEN NameRank(Head(a)) < NameRank(Head(b))
    ELSE RelLeq(Tail(a), Tail(b))

RECURSIVE SortRel(_)
SortRel(S) ==
    IF S = {} THEN <<>>
    ELSE LET m == CHOOSE x \in S : \A y \in S : RelLeq(x, y)
         IN <<m>> \o SortRel(S \ {m})

\* filepath.Rel(src, path) for a path at or under src.
Rel(src, p) == SubSeq(p, Len(src) + 1, Len(p))

\* The entries filepath.WalkDir(src) visits, as paths relative to src, in
\* the order of the visit: src itself first, a directory before its entries.
WalkOrder(f, src) == SortRel({Rel(src, p) : p \in {q \in DOMAIN f : IsPrefix(src, q)}})

RECURSIVE WalkFrom(_, _, _, _, _, _, _)
WalkFrom(f, src, dst, walk, i, failAt, fault) ==
    IF i > Len(walk) THEN Ok(f)
    ELSE LET path == src \o walk[i]
             target == dst \o walk[i]
             r == IF ~Exists(f, path) THEN Fail("lstat", path, f)
                  ELSE IF f[path].kind = "dir" THEN MkdirAll(f, target, i = failAt)
                  ELSE copyFile(f, path, target, IF i = failAt THEN fault ELSE "none")
         IN IF r.err # "" THEN r
            ELSE WalkFrom(r.fs, src, dst, walk, i + 1, failAt, fault)

\* A plausible slip: an entry that fails is skipped and the walk goes on.
RECURSIVE WalkFromSkipping(_, _, _, _, _, _, _)
WalkFromSkipping(f, src, dst, walk, i, failAt, fault) ==
    IF i > Len(walk) THEN Ok(f)
    ELSE LET path == src \o walk[i]
             target == dst \o walk[i]
             r == IF ~Exists(f, path) THEN Fail("lstat", path, f)
                  ELSE IF f[path].kind = "dir" THEN MkdirAll(f, target, i = failAt)
                  ELSE copyFile(f, path, target, IF i = failAt THEN fault ELSE "none")
         IN WalkFromSkipping(r.fs, src, dst, walk, i + 1, failAt, fault)

\* copyDirRecursive(src, dst), main.go 242-252: the walk stops at the first
\* entry whose callback returns an error.  The entry numbered failAt (0 for
\* none) meets the injected fault.
copyDirRecursive(f, src, dst, failAt, fault) ==
    WalkFrom(f, src, dst, WalkOrder(f, src), 1, failAt, fault)

\* A plausible slip: the destination is cleared before the copy, so that
\* the copy replaces it.
copyDirReplacing(f, src, dst, failAt, fault) ==
    IF ~Exists(f, src) THEN Fail("stat", src, f)
    ELSE IF f[src].kind = "dir"
    THEN WalkFrom(RemoveAll(f, dst), src, dst, WalkOrder(f, src), 1, failAt, fault)
    ELSE copyFile(f, src, dst, IF failAt = 1 THEN fault ELSE "none")

\* copyDir(src, dst), main.go 233-240
copyDir(f, src, dst, failAt, fault) ==
    IF ~Exists(f, src) THEN Fail("stat", src, f)
    ELSE IF f[src].kind = "dir" THEN copyDirRecursive(f, src, dst, failAt, fault)
    ELSE copyFile(f, src, dst, IF failAt = 1 THEN fault ELSE "none")

\* ------------------------------------------------------------------ templates

PlistHead == "<plist><dict>...<key>CFBundleIdentifier</key><string>"

PlistMid == "</string>...<key>CFBundleName</key><string>"

PlistTail == "</string>...<key>NSPrincipalClass</key><string>VideoSaverView</string></dict></plist>"

\* A plausible slip: the identifier is lower-cased and its spaces are kept.
bundleIdentifierKeepsSpaces(name) == <<"com.example.">> \o ToLower(name)

\* The value of CFBundleIdentifier, main.go 453.
bundleIdentifier(name) == <<"com.example.">> \o ToLower(ReplaceAll(name, " "))

\* infoPlist(name), main.go 443-469: the fixed text with the identifier and
\* the name spliced in.
infoPlist(name) ==
    <<PlistHead>> \o bundleIdentifier(name) \o <<PlistMid>> \o name \o <<PlistTail>>

\* swiftSaverClass(_), main.go 369-441: its parameter is not used.
swiftSaverClass(name) == <<"import ScreenSaver ... public class VideoSaverView: ScreenSaverView">>

\* xcodeprojPbxproj(name), main.go 264-367: the name is spliced in at six
\* places of the fixed text.
xcodeprojPbxproj(name) ==
    <<"pbxproj:FileReference/*">> \o name \o <<".saver*/path=">> \o name
        \o <<".saver;Products/*">> \o name \o <<".saver*/;productReference/*">> \o name
        \o <<".saver*/;Debug:PRODUCT_NAME=">> \o name \o <<";Release:PRODUCT_NAME=">> \o name
        \o <<";rootObject">>

\* The position of the first token t in text s, 0 when there is none.
IndexOf(s, t) ==
    IF \E i \in 1..Len(s) : s[i] = t
    THEN CHOOSE i \in 1..Len(s) : s[i] = t /\ \A j \in 1..(i - 1) : s[j] # t
    ELSE 0

\* The text of a manifest between two of its fixed fragments.
Between(doc, a, b) == SubSeq(doc, IndexOf(doc, a) + 1, IndexOf(doc, b) - 1)

\* The <string> that follows <key>CFBundleIdentifier</key> in a manifest.
CFBundleIdentifierOf(doc) == Between(doc, PlistHead, PlistMid)

\* The <string> that follows <key>CFBundleName</key> in a manifest.
CFBundleNameOf(doc) == Between(doc, PlistMid, PlistTail)

\* ------------------------------------------------------------------ state

VARIABLES
    cmd,        \* the subcommand os.Args[1], "" when there is none
    in,         \* the -in argument: the path of the input media file
    out,        \* the -out argument: the path of the bundle to produce
    name,       \* the -name argument: the display name
    lookPath,   \* the executables exec.LookPath finds
    fs0,        \* the filesystem as the process found it
    fs,         \* the filesystem: path -> node
    strategy,   \* the pipeline buildMacSaver selected, "none" before
    pc,         \* the statement the process is at
    tempDir,    \* buildMacSaverSwift/Xcode's tempDir, <<>> before MkdirTemp
    result,     \* the error buildMacSaver returns, kind "pending" until then
    probed,     \* the executables looked up so far, in order
    toolCalls,  \* the external commands run so far, in order
    stages,     \* the pipeline stages entered so far, in order
    preWrites,  \* the paths the pipeline created or wrote before promotion
    postWrites, \* the paths the pipeline created or wrote from promotion on
    cleanup,    \* the deferred workspace deletion: "none", "scheduled", "done", "failed"
    log,        \* the lines printed, by their fixed prefix
    exitCode,   \* the exit code of the process, -1 while it runs
    failed      \* the pipeline stages whose call met an error, in order

\* What the process is given and never changes.
env == <<cmd, in, out, name, lookPath, fs0>>

vars ==
    <<cmd, in, out, name, lookPath, fs0, fs, strategy, pc, tempDir, result, probed, toolCalls,
      stages, preWrites, postWrites, cleanup, log, exitCode, failed>>

Tools == {"swiftc", "xcodebuild"}

\* os.TempDir()
TmpRoot == <<Lit("tmp")>>

\* The directory os.MkdirTemp("", "scrgen-mac-*") makes: a name no other
\* entry of os.TempDir() has.
TempDirPath == TmpRoot \o <<(<<"scrgen-mac-", "1">>)>>

InPath == <<Lit("in.mp4")>>

\* The output paths requests are drawn from: one away from os.TempDir(), one
\* next to the workspace.
OutPaths == {<<Lit("out.saver")>>, TmpRoot \o <<Lit(".saver")>>}

\* The contents input files are drawn from.
Media == {<<"m1", "m2">>, <<"n1">>}

\* The subcommands requests are drawn from: none, the one main knows, and
\* one it does not.
Cmds == {"", "mac", "win"}

\* The empty string as the value of -in or -out: the flag's default.
EmptyArg == <<>>

Err(kind, path, cause) == [kind |-> kind, path |-> path, cause |-> cause]

Pending == Err("pending", <<>>, "")

Nil == Err("nil", <<>>, "")

\* The filesystem a request starts from: the input file present or not, the
\* output path absent or left by an earlier run with a file of its own.
InitFs(media, hasInput, o, hasOut) ==
    LET base == [p \in {<<>>, TmpRoot} |-> DirNode]
        withIn == IF hasInput THEN Put(base, InPath, FileNode(media, FALSE)) ELSE base
        old == o \o <<Lit("Contents"), Lit("old.txt")>>
    IN IF hasOut
       THEN WriteFile(MkdirAll(withIn, Dir(old), FALSE).fs, old, <<"old">>, FALSE).fs
       ELSE withIn

Init ==
    /\ cmd \in Cmds
    /\ in \in {EmptyArg, InPath}
    /\ out \in {EmptyArg} \cup OutPaths
    /\ name \in Names
    /\ lookPath \in SUBSET Tools
    /\ fs \in {InitFs(m, hasInput, out, hasOut) :
                 m \in Media, hasInput \in BOOLEAN,
                 hasOut \in IF out = EmptyArg THEN {FALSE} ELSE BOOLEAN}
    /\ fs0 = fs
    /\ strategy = "none"
    /\ pc = "main"
    /\ tempDir = <<>>
    /\ result = Pending
    /\ probed = <<>>
    /\ toolCalls = <<>>
    /\ stages = <<>>
    /\ preWrites = {}
    /\ postWrites = {}
    /\ cleanup = "none"
    /\ log = <<>>
    /\ exitCode = -1
    /\ failed = <<>>

\* ------------------------------------------------------------------ locals

projName == sanitizeName(name)

bundlePath == Join(tempDir, projName \o <<".saver">>)

contentsPath == Join(bundlePath, <<"Contents">>)

macosPath == Join(contentsPath, <<"MacOS">>)

resourcesPath == Join(contentsPath, <<"Resources">>)

payloadPath == Join(resourcesPath, <<"payload.mp4">>)

plistPath == Join(contentsPath, <<"Info.plist">>)

swiftPath == Join(tempDir, <<"VideoSaver.swift">>)

execPath == Join(macosPath, <<"VideoSaver">>)

finalExecPath == Join(out, <<"Contents", "/", "MacOS", "/", "VideoSaver">>)

pbxprojPath == Join(tempDir, <<"VideoSaver.xcodeproj", "/", "project.pbxproj">>)

xcodeSwiftPath == Join(tempDir, <<"VideoSaver", "/", "VideoSaver.swift">>)

xcodePlistPath == Join(tempDir, <<"VideoSaver", "/", "Info.plist">>)

payloadDest == Join(tempDir, <<"VideoSaver", "/", "payload.mp4">>)

built == Join(tempDir, <<"build", "/", "Release", "/">> \o projName \o <<".saver">>)

\* The paths a step created or changed.
Touched(f, g) == {p \in DOMAIN g : p \notin DOMAIN f \/ f[p] # g[p]}

\* ------------------------------------------------------------------ strategy selection

\* A plausible slip: the project-based build tool is preferred.
selectXcodeFirst(found) ==
    IF "xcodebuild" \in found THEN [strategy |-> "xcode", probes |-> <<"xcodebuild">>]
    ELSE IF "swiftc" \in found THEN [strategy |-> "swift", probes |-> <<"xcodebuild", "swiftc">>]
    ELSE [strategy |-> "none", probes |-> <<"xcodebuild", "swiftc">>]

\* A plausible slip: the fallback is taken without looking xcodebuild up.
selectWithoutSecondLookup(found) ==
    IF "swiftc" \in found THEN [strategy |-> "swift", probes |-> <<"swiftc">>]
    ELSE [strategy |-> "xcode", probes |-> <<"swiftc">>]

\* The lookups of buildMacSaver, main.go 95-105, and the branch they select.
selectStrategy(found) ==
    IF "swiftc" \in found THEN [strategy |-> "swift", probes |-> <<"swiftc">>]
    ELSE IF "xcodebuild" \in found THEN [strategy |-> "xcode", probes |-> <<"swiftc", "xcodebuild">>]
    ELSE [strategy |-> "none", probes |-> <<"swiftc", "xcodebuild">>]

\* usage() followed by os.Exit(2), main.go 39-40, 51-52 and 62-63.
usageExit ==
    /\ log' = Append(log, "Usage:")
    /\ exitCode' = 2
    /\ pc' = "exited"

\* The outcomes of flagSet.Parse(os.Args[2:]), main.go 47: the flags are
\* taken, or one of them is not defined, or help is asked for.
ParseOutcomes == {"ok", "undefined", "help"}

\* The exit codes flag.ExitOnError gives a request for help: 0, and 2 with
\* the releases of the flag package that took it for an error.
HelpExits == {0, 2}

\* A plausible slip: only -in is checked before the subcommand is looked at.
mainChecksOnlyIn ==
    /\ pc = "main"
    /\ IF cmd = ""
       THEN usageExit
       ELSE \E parse \in ParseOutcomes, code \in HelpExits :
              /\ parse # "help" => code = 2
              /\ IF parse # "ok"
                 THEN /\ log' = Append(log, IF parse = "help" THEN "Usage of"
                                            ELSE "flag provided but not defined:")
                      /\ exitCode' = code
                      /\ pc' = "exited"
                 ELSE IF in = EmptyArg
                 THEN usageExit
                 ELSE IF cmd = "mac"
                 THEN pc' = "buildMacSaver" /\ UNCHANGED <<log, exitCode>>
                 ELSE usageExit
    /\ UNCHANGED <<env, fs, strategy, tempDir, result, probed, toolCalls, stages,
                   preWrites, postWrites, cleanup, failed>>

\* main, main.go 37-56, up to the call of buildMacSaver.  With
\* flag.ExitOnError a Parse that fails exits the process itself, so the
\* fatal(err) of main.go 48 is never reached.
main ==
    /\ pc = "main"
    /\ IF cmd = ""
       THEN usageExit
       ELSE \E parse \in ParseOutcomes, code \in HelpExits :
              /\ parse # "help" => code = 2
              /\ IF parse # "ok"
                 THEN /\ log' = Append(log, IF parse = "help" THEN "Usage of"
                                            ELSE "flag provided but not defined:")
                      /\ exitCode' = code
                      /\ pc' = "exited"
                 ELSE IF in = EmptyArg \/ out = EmptyArg
                 THEN usageExit
                 ELSE IF cmd = "mac"
                 THEN pc' = "buildMacSaver" /\ UNCHANGED <<log, exitCode>>
                 ELSE usageExit
    /\ UNCHANGED <<env, fs, strategy, tempDir, result, probed, toolCalls, stages,
                   preWrites, postWrites, cleanup, failed>>

NoToolchain ==
    Err("Neither swiftc nor xcodebuild found. Install Xcode command line tools: xcode-select --install",
        <<>>, "")

\* buildMacSaver, main.go 90-106, up to the call of the selected pipeline.
\* The warning printed off macOS (main.go 91-93) changes nothing and is left
\* out of the log.
buildMacSaver ==
    /\ pc = "buildMacSaver"
    /\ LET s == selectStrategy(lookPath) IN
       /\ probed' = s.probes
       /\ strategy' = s.strategy
       /\ IF s.strategy = "swift"
          THEN pc' = "swift.MkdirTemp" /\ result' = result
                 /\ log' = Append(log, "[info] Using Swift compiler directly")
          ELSE IF s.strategy = "xcode"
          THEN pc' = "xcode.MkdirTemp" /\ result' = result
                 /\ log' = Append(log, "[info] Using Xcode build system")
          ELSE pc' = "returned" /\ result' = NoToolchain /\ log' = log
    /\ UNCHANGED <<env, fs, tempDir, toolCalls, stages,
                   preWrites, postWrites, cleanup, exitCode, failed>>

\* ------------------------------------------------------------------ pipeline steps

\* A plausible slip: a failure of the direct-compiler pipeline falls through
\* to the lookup of xcodebuild.
afterPipelineFallThrough(s, e, found) ==
    IF s = "swift" /\ e.kind # "nil" /\ "xcodebuild" \in found
    THEN "xcode.MkdirTemp"
    ELSE "returned"

\* Where the process is once pipeline s has returned e: buildMacSaver
\* returns the pipeline's result as its own, main.go 97 and 102.
afterPipeline(s, e, found) == "returned"

\* One step of a pipeline that ran the filesystem call(s) with outcome r as
\* stage `stage`: on an error the pipeline returns it; else it goes on at
\* `next`, or returns nil when next is "done".  post tells the steps from
\* promotion on.
Advance(stage, r, next, post) ==
    LET e == IF r.err # "" THEN Err(r.err, r.path, "") ELSE Nil IN
    /\ stages' = Append(stages, stage)
    /\ failed' = IF r.err # "" THEN Append(failed, stage) ELSE failed
    /\ fs' = r.fs
    /\ IF post
       THEN postWrites' = postWrites \cup Touched(fs, r.fs) /\ preWrites' = preWrites
       ELSE preWrites' = preWrites \cup Touched(fs, r.fs) /\ postWrites' = postWrites
    /\ IF r.err = "" /\ next # "done"
       THEN pc' = next /\ result' = result
       ELSE pc' = afterPipeline(strategy, e, lookPath) /\ result' = e

\* os.MkdirTemp("", "scrgen-mac-*"): a new directory under os.TempDir().
MkdirTemp(f, fail) ==
    IF fail \/ ~IsDirAt(f, TmpRoot) THEN Fail("mkdirtemp", TmpRoot, f)
    ELSE Ok(Put(f, TempDirPath, DirNode))

\* os.MkdirAll on each of dirs in order, stopping at the first error; the
\* call numbered failAt (0 for none) meets an injected error.
RECURSIVE MkdirEach(_, _, _, _)
MkdirEach(f, dirs, i, failAt) ==
    IF i > Len(dirs) THEN Ok(f)
    ELSE LET r == MkdirAll(f, dirs[i], i = failAt) IN
         IF r.err # "" THEN r ELSE MkdirEach(r.fs, dirs, i + 1, failAt)

\* main.go 111-116
SwiftMkdirTemp ==
    /\ pc = "swift.MkdirTemp"
    /\ \E fail \in BOOLEAN :
         LET r == MkdirTemp(fs, fail) IN
         /\ Advance("Init", r, "swift.Scaffold", FALSE)
         /\ tempDir' = IF r.err = "" THEN TempDirPath ELSE tempDir
         /\ log' = IF r.err = "" THEN Append(log, "[debug] Temp directory") ELSE log
    /\ UNCHANGED <<env, strategy, probed, toolCalls, cleanup, exitCode>>

\* main.go 118-126
SwiftScaffold ==
    /\ pc = "swift.Scaffold"
    /\ \E failAt \in 0..4 :
         Advance("Scaffold",
                 MkdirEach(fs, <<bundlePath, contentsPath, macosPath, resourcesPath>>, 1, failAt),
                 "swift.CopyVideo", FALSE)
    /\ UNCHANGED <<env, strategy, tempDir, probed, toolCalls, cleanup, log, exitCode>>

\* main.go 128-131
SwiftCopyVideo ==
    /\ pc = "swift.CopyVideo"
    /\ \E fault \in FileFaults :
         Advance("StageAsset", copyFile(fs, in, payloadPath, fault), "swift.Emit", FALSE)
    /\ UNCHANGED <<env, strategy, tempDir, probed, toolCalls, cleanup, log, exitCode>>

\* main.go 133-143: Info.plist, then VideoSaver.swift; write is the number
\* of the os.WriteFile call that meets an injected error (0 for none).
EmitSwift(f, failAt) ==
    LET p == WriteFile(f, plistPath, infoPlist(projName), failAt = 1) IN
    IF p.err # "" THEN p
    ELSE WriteFile(p.fs, swiftPath, swiftSaverClass(projName), failAt = 2)

SwiftEmit ==
    /\ pc = "swift.Emit"
    /\ \E failAt \in 0..2 :
         Advance("Emit", EmitSwift(fs, failAt), "swift.Compile", FALSE)
    /\ UNCHANGED <<env, strategy, tempDir, probed, toolCalls, cleanup, log, exitCode>>

\* ------------------------------------------------------------------ external tools

\* The outcomes of run(dir, name, args...), main.go 254-260: the command
\* cannot be started, exits nonzero, or exits zero having written its
\* output ("ok") or not ("silent").
RunOutcomes == {"spawn", "exit", "ok", "silent"}

SwiftcArgs ==
    <<"-framework", "ScreenSaver", "-framework", "AVFoundation", "-framework", "AVKit",
      "-framework", "Cocoa", "-emit-library", "-module-name", "VideoSaver", "-o">>

XcodebuildArgs ==
    <<"-project", "VideoSaver.xcodeproj", "-scheme", "VideoSaver", "-configuration", "Release",
      "build">>

\* What swiftc leaves when it succeeds: the library at the -o path, with
\* the mode x the linker gives it.
swiftcOutput(f, x) == Put(f, execPath, FileNode(<<"dylib">>, x))

\* What xcodebuild leaves when it succeeds: the product under build/Release
\* in the layout of a .saver bundle, made from the files of the project.
xcodebuildOutput(f, x) ==
    LET c == built \o <<Lit("Contents")>>
        d == MkdirEach(f, <<c \o <<Lit("MacOS")>>, c \o <<Lit("Resources")>>>>, 1, 0).fs
        withPlist == Put(d, c \o <<Lit("Info.plist")>>, FileNode(f[xcodePlistPath].content, FALSE))
        withExec == Put(withPlist, c \o <<Lit("MacOS"), Lit("VideoSaver")>>, FileNode(<<"dylib">>, x))
    IN Put(withExec, c \o <<Lit("Resources"), Lit("payload.mp4")>>,
           FileNode(f[payloadDest].content, FALSE))

\* main.go 145-158
SwiftCompile ==
    /\ pc = "swift.Compile"
    /\ stages' = Append(stages, "Compile")
    /\ toolCalls' = Append(toolCalls,
                           [tool |-> "swiftc", dir |-> tempDir, args |-> SwiftcArgs,
                            o |-> execPath, rest |-> <<"VideoSaver.swift">>])
    /\ log' = Append(log, "[debug] Compiling Swift to")
    /\ \E outcome \in RunOutcomes, x \in BOOLEAN :
         /\ outcome # "ok" => x
         /\ IF outcome \in {"spawn", "exit"}
            THEN /\ pc' = afterPipeline(strategy, Err("swift compilation failed", <<>>, outcome), lookPath)
                 /\ result' = Err("swift compilation failed", <<>>, outcome)
                 /\ fs' = fs
                 /\ failed' = Append(failed, "Compile")
            ELSE /\ pc' = "swift.Verify"
                 /\ result' = result
                 /\ failed' = failed
                 /\ fs' = IF outcome = "ok" THEN swiftcOutput(fs, x) ELSE fs
    /\ UNCHANGED <<env, strategy, tempDir, probed, preWrites, postWrites,
                   cleanup, exitCode>>

\* A plausible slip: when the output is missing the compiler is run once
\* more before the pipeline gives up.
SwiftVerifyRetries ==
    /\ pc = "swift.Verify"
    /\ stages' = Append(stages, "Verify")
    /\ IF Exists(fs, execPath)
       THEN /\ pc' = "swift.CopyBundle"
            /\ result' = result
            /\ log' = Append(log, "[debug] Executable created successfully")
            /\ failed' = failed
       ELSE IF Len(toolCalls) < 2
       THEN /\ pc' = "swift.Compile"
            /\ result' = result
            /\ log' = log
            /\ failed' = failed
       ELSE /\ pc' = "returned"
            /\ result' = Err("executable not created", execPath, "")
            /\ log' = log
            /\ failed' = Append(failed, "Verify")
    /\ UNCHANGED <<env, strategy, fs, tempDir, probed, toolCalls, preWrites,
                   postWrites, cleanup, exitCode>>

\* A plausible slip: the exit status of the compiler is trusted and the
\* output is not looked for.
SwiftVerifyTrustsExit ==
    /\ pc = "swift.Verify"
    /\ stages' = Append(stages, "Verify")
    /\ pc' = "swift.CopyBundle"
    /\ UNCHANGED <<env, strategy, fs, tempDir, result, probed, toolCalls, preWrites,
                   postWrites, cleanup, log, exitCode, failed>>

\* main.go 160-164
SwiftVerify ==
    /\ pc = "swift.Verify"
    /\ stages' = Append(stages, "Verify")
    /\ IF Exists(fs, execPath)
       THEN /\ pc' = "swift.CopyBundle"
            /\ result' = result
            /\ log' = Append(log, "[debug] Executable created successfully")
            /\ failed' = failed
       ELSE /\ pc' = afterPipeline(strategy, Err("executable not created", execPath, ""), lookPath)
            /\ result' = Err("executable not created", execPath, "")
            /\ log' = log
            /\ failed' = Append(failed, "Verify")
    /\ UNCHANGED <<env, strategy, fs, tempDir, probed, toolCalls, preWrites,
                   postWrites, cleanup, exitCode>>

\* The entry and fault a copyDir(src, ...) call can meet: none, or one fault
\* at one entry of the walk, before or after the entry's file was created.
WalkFaults(f, src) ==
    {<<0, "none">>} \cup ((1..Len(WalkOrder(f, src))) \X {"create", "short"})

\* main.go 166-167
SwiftCopyBundle ==
    /\ pc = "swift.CopyBundle"
    /\ \E w \in WalkFaults(fs, bundlePath) :
         Advance("Promote", copyDir(fs, bundlePath, out, w[1], w[2]), "swift.Chmod", TRUE)
    /\ UNCHANGED <<env, strategy, tempDir, probed, toolCalls, cleanup, log, exitCode>>

\* A plausible slip: the direct-compiler pipeline ends like the project-based
\* one, starting the deletion of its workspace.
SwiftChmodCleansUp ==
    /\ pc = "swift.Chmod"
    /\ \E fail \in BOOLEAN :
         LET r == Chmod(fs, finalExecPath, fail) IN
         /\ fs' = r.fs
         /\ postWrites' = postWrites \cup Touched(fs, r.fs)
         /\ log' = IF r.err # ""
                   THEN Append(log, "[warn] Could not set executable permissions")
                   ELSE log
         /\ failed' = IF r.err # "" THEN Append(failed, "FixPermissions") ELSE failed
    /\ stages' = Append(stages, "FixPermissions")
    /\ pc' = "returned"
    /\ result' = Nil
    /\ cleanup' = "scheduled"
    /\ UNCHANGED <<env, strategy, tempDir, probed, toolCalls, preWrites, exitCode>>

\* A plausible slip: the error of os.Chmod is returned like every other.
SwiftChmodFatal ==
    /\ pc = "swift.Chmod"
    /\ \E fail \in BOOLEAN :
         LET r == Chmod(fs, finalExecPath, fail) IN
         /\ fs' = r.fs
         /\ postWrites' = postWrites \cup Touched(fs, r.fs)
         /\ failed' = IF r.err # "" THEN Append(failed, "FixPermissions") ELSE failed
         /\ result' = IF r.err # "" THEN Err(r.err, r.path, "") ELSE Nil
    /\ stages' = Append(stages, "FixPermissions")
    /\ pc' = "returned"
    /\ UNCHANGED <<env, strategy, tempDir, probed, toolCalls, preWrites,
                   cleanup, log, exitCode>>

\* main.go 169-175: an error of os.Chmod is printed and not returned.
SwiftChmod ==
    /\ pc = "swift.Chmod"
    /\ \E fail \in BOOLEAN :
         LET r == Chmod(fs, finalExecPath, fail) IN
         /\ fs' = r.fs
         /\ postWrites' = postWrites \cup Touched(fs, r.fs)
         /\ log' = IF r.err # ""
                   THEN Append(log, "[warn] Could not set executable permissions")
                   ELSE log
         /\ failed' = IF r.err # "" THEN Append(failed, "FixPermissions") ELSE failed
    /\ stages' = Append(stages, "FixPermissions")
    /\ pc' = afterPipeline(strategy, Nil, lookPath)
    /\ result' = Nil
    /\ UNCHANGED <<env, strategy, tempDir, probed, toolCalls, preWrites,
                   cleanup, exitCode>>

\* ------------------------------------------------------------------ project-based pipeline

\* The swiftFiles map of buildMacSaverXcode, main.go 186-190.
swiftFiles ==
    <<[path |-> pbxprojPath, content |-> xcodeprojPbxproj(projName)],
      [path |-> xcodeSwiftPath, content |-> swiftSaverClass(projName)],
      [path |-> xcodePlistPath, content |-> infoPlist(projName)]>>

\* The orders a range over a map of three entries can take.
MapOrders == {p \in [1..3 -> 1..3] : \A i, j \in 1..3 : p[i] = p[j] => i = j}

\* The loop of main.go 191-194 over the files in the order `order`: the
\* directory is made, then the file written; the iteration numbered failAt
\* (0 for none) meets an injected error in the call failOp.
RECURSIVE WriteEach(_, _, _, _, _)
WriteEach(f, order, i, failAt, failOp) ==
    IF i > 3 THEN Ok(f)
    ELSE LET file == swiftFiles[order[i]]
             m == MkdirAll(f, Dir(file.path), i = failAt /\ failOp = "mkdir")
         IN IF m.err # "" THEN m
            ELSE LET w == WriteFile(m.fs, file.path, file.content, i = failAt /\ failOp = "write")
                 IN IF w.err # "" THEN w ELSE WriteEach(w.fs, order, i + 1, failAt, failOp)

\* A plausible slip: the deletion of the workspace is started as soon as the
\* workspace is made.
XcodeMkdirTempSchedulesCleanup ==
    /\ pc = "xcode.MkdirTemp"
    /\ \E fail \in BOOLEAN :
         LET r == MkdirTemp(fs, fail) IN
         /\ Advance("Init", r, "xcode.WriteFiles", FALSE)
         /\ tempDir' = IF r.err = "" THEN TempDirPath ELSE tempDir
         /\ cleanup' = IF r.err = "" THEN "scheduled" ELSE cleanup
    /\ UNCHANGED <<env, strategy, probed, toolCalls, log, exitCode>>

\* main.go 181-185
XcodeMkdirTemp ==
    /\ pc = "xcode.MkdirTemp"
    /\ \E fail \in BOOLEAN :
         LET r == MkdirTemp(fs, fail) IN
         /\ Advance("Init", r, "xcode.WriteFiles", FALSE)
         /\ tempDir' = IF r.err = "" THEN TempDirPath ELSE tempDir
    /\ UNCHANGED <<env, strategy, probed, toolCalls, cleanup, log, exitCode>>

\* main.go 186-194
XcodeWriteFiles ==
    /\ pc = "xcode.WriteFiles"
    /\ \E order \in MapOrders, failAt \in 0..3, failOp \in {"mkdir", "write"} :
         Advance("Emit", WriteEach(fs, order, 1, failAt, failOp), "xcode.CopyVideo", FALSE)
    /\ UNCHANGED <<env, strategy, tempDir, probed, toolCalls, cleanup, log, exitCode>>

\* main.go 195-197
XcodeCopyVideo ==
    /\ pc = "xcode.CopyVideo"
    /\ \E fault \in FileFaults :
         Advance("StageAsset", copyFile(fs, in, payloadDest, fault), "xcode.Build", FALSE)
    /\ UNCHANGED <<env, strategy, tempDir, probed, toolCalls, cleanup, log, exitCode>>

\* main.go 199-202
XcodeBuild ==
    /\ pc = "xcode.Build"
    /\ stages' = Append(stages, "Compile")
    /\ toolCalls' = Append(toolCalls,
                           [tool |-> "xcodebuild", dir |-> tempDir, args |-> XcodebuildArgs,
                            o |-> <<>>, rest |-> <<>>])
    /\ \E outcome \in RunOutcomes, x \in BOOLEAN :
         /\ outcome # "ok" => x
         /\ IF outcome \in {"spawn", "exit"}
            THEN /\ pc' = afterPipeline(strategy, Err("xcodebuild failed", <<>>, outcome), lookPath)
                 /\ result' = Err("xcodebuild failed", <<>>, outcome)
                 /\ fs' = fs
                 /\ failed' = Append(failed, "Compile")
            ELSE /\ pc' = "xcode.Verify"
                 /\ result' = result
                 /\ failed' = failed
                 /\ fs' = IF outcome = "ok" THEN xcodebuildOutput(fs, x) ELSE fs
    /\ UNCHANGED <<env, strategy, tempDir, probed, preWrites, postWrites,
                   cleanup, log, exitCode>>

\* main.go 204-208
XcodeVerify ==
    /\ pc = "xcode.Verify"
    /\ stages' = Append(stages, "Verify")
    /\ IF Exists(fs, built)
       THEN pc' = "xcode.CopyBundle" /\ result' = result /\ failed' = failed
       ELSE /\ pc' = afterPipeline(strategy, Err("expected output not found", built, ""), lookPath)
            /\ result' = Err("expected output not found", built, "")
            /\ failed' = Append(failed, "Verify")
    /\ UNCHANGED <<env, strategy, fs, tempDir, probed, toolCalls, preWrites,
                   postWrites, cleanup, log, exitCode>>

\* main.go 209-218: the copy to the output path; when it succeeds the
\* goroutine that deletes tempDir is started and nil is returned.
XcodeCopyBundle ==
    /\ pc = "xcode.CopyBundle"
    /\ \E w \in WalkFaults(fs, built) :
         LET r == copyDir(fs, built, out, w[1], w[2]) IN
         /\ Advance("Promote", r, "done", TRUE)
         /\ cleanup' = IF r.err = "" THEN "scheduled" ELSE cleanup
    /\ UNCHANGED <<env, strategy, tempDir, probed, toolCalls, log, exitCode>>

\* The goroutine of main.go 213-216, once its sleep is over; it runs only
\* while the process lives, and the error of os.RemoveAll is dropped: the
\* workspace is deleted, or the call fails and leaves it.
cleanupTask ==
    /\ cleanup = "scheduled"
    /\ pc # "exited"
    /\ \E fail \in BOOLEAN :
         /\ fs' = IF fail THEN fs ELSE RemoveAll(fs, tempDir)
         /\ cleanup' = IF fail THEN "failed" ELSE "done"
    /\ UNCHANGED <<env, strategy, pc, tempDir, result, probed, toolCalls, stages,
                   preWrites, postWrites, log, exitCode, failed>>

\* A plausible slip: main waits for the deletion of the workspace before it
\* ends.
mainReturnWaits ==
    /\ pc = "returned"
    /\ cleanup # "scheduled"
    /\ pc' = "exited"
    /\ IF result = Nil
       THEN exitCode' = 0 /\ log' = Append(log, "Built macOS screensaver:")
       ELSE exitCode' = 1 /\ log' = Append(log, "ERROR:")
    /\ UNCHANGED <<env, strategy, fs, tempDir, result, probed, toolCalls, stages,
                   preWrites, postWrites, cleanup, failed>>

\* main.go 57-60 and fatal, 77-80: the error is printed and the process
\* exits 1, or the confirmation is printed and main returns.
mainReturn ==
    /\ pc = "returned"
    /\ pc' = "exited"
    /\ IF result = Nil
       THEN exitCode' = 0 /\ log' = Append(log, "Built macOS screensaver:")
       ELSE exitCode' = 1 /\ log' = Append(log, "ERROR:")
    /\ UNCHANGED <<env, strategy, fs, tempDir, result, probed, toolCalls, stages,
                   preWrites, postWrites, cleanup, failed>>

Next ==
    \/ main
    \/ buildMacSaver
    \/ SwiftMkdirTemp
    \/ SwiftScaffold
    \/ SwiftCopyVideo
    \/ SwiftEmit
    \/ SwiftCompile
    \/ SwiftVerify
    \/ SwiftCopyBundle
    \/ SwiftChmod
    \/ XcodeMkdirTemp
    \/ XcodeWriteFiles
    \/ XcodeCopyVideo
    \/ XcodeBuild
    \/ XcodeVerify
    \/ XcodeCopyBundle
    \/ cleanupTask
    \/ mainReturn

Spec == Init /\ [][Next]_vars

\* ------------------------------------------------------------------ properties

\* buildMacSaver was called and has returned.
Returned == pc = "returned" \/ (pc = "exited" /\ exitCode \in {0, 1} /\ result # Pending)

\* buildMacSaver was called and has done its lookups.
Selected == pc \notin {"main", "buildMacSaver"} /\ ~(pc = "exited" /\ result = Pending)

\* The run entered pipeline stage st.
Entered(st) == \E i \in 1..Len(stages) : stages[i] = st

\* The external commands run so far, by name.
ToolsRun == {toolCalls[i].tool : i \in 1..Len(toolCalls)}

\* The pipelines that announced themselves (main.go 109 and 179).
RanSwift == \E i \in 1..Len(log) : log[i] = "[info] Using Swift compiler directly"

RanXcode == \E i \in 1..Len(log) : log[i] = "[info] Using Xcode build system"

\* The part of filesystem f at or under path p, by relative path.
Tree(f, p) == [r \in {Rel(p, q) : q \in {x \in DOMAIN f : IsPrefix(p, x)}} |-> f[p \o r]]

\* C1: swiftc is looked up first and xcodebuild second; the direct-compiler
\* pipeline is the one run whenever swiftc is found, whether or not
\* xcodebuild is found too, and the project-based pipeline is run exactly
\* when swiftc is not found and xcodebuild is.
C1_SelectionOrder ==
    Selected =>
        /\ probed # <<>> /\ probed[1] = "swiftc"
        /\ Len(probed) > 1 => (Len(probed) = 2 /\ probed[2] = "xcodebuild" /\ "swiftc" \notin lookPath)
        /\ "swiftc" \in lookPath => (RanSwift /\ ~RanXcode /\ ToolsRun \subseteq {"swiftc"})
        /\ RanXcode <=> ("swiftc" \notin lookPath /\ "xcodebuild" \in lookPath)
        /\ RanXcode => (~RanSwift /\ ToolsRun \subseteq {"xcodebuild"})

\* Both tools are found and the direct compiler has been run.
C1_Witness ==
    /\ lookPath = Tools
    /\ pc = "exited"
    /\ ToolsRun = {"swiftc"}

\* C2 as stated: with neither tool found, buildMacSaver fails with the
\* no-toolchain error, no workspace is made, nothing is scaffolded, no tool
\* is run, and nothing exists at the output path.
C2_NothingAtOutput ==
    (lookPath = {} /\ Returned) =>
        /\ result = NoToolchain
        /\ tempDir = <<>> /\ ~Exists(fs, TempDirPath)
        /\ stages = <<>> /\ toolCalls = <<>>
        /\ ~Exists(fs, out)

\* C2 amended: with neither tool found, buildMacSaver fails with the
\* no-toolchain error before any filesystem mutation: no workspace is made,
\* nothing is scaffolded, no tool is run, and the filesystem, the output path
\* included, is as the process found it.
C2_NoToolchainNoMutation ==
    (lookPath = {} /\ Returned) =>
        /\ result = NoToolchain
        /\ tempDir = <<>> /\ ~Exists(fs, TempDirPath)
        /\ stages = <<>> /\ toolCalls = <<>>
        /\ preWrites = {} /\ postWrites = {}
        /\ fs = fs0

\* Neither tool is found, the process has exited, and the output path was
\* there before the run.
C2_Witness ==
    /\ lookPath = {}
    /\ pc = "exited"
    /\ exitCode = 1
    /\ Exists(fs0, out)

\* C3: when the input file does not exist, a pipeline that was selected
\* fails and runs no external tool; once it has got to the copy stage it has
\* failed there with the error of opening the input, and no output path has
\* been created.
C3_MissingInput ==
    /\ (~Exists(fs0, in) /\ strategy # "none" /\ Returned) =>
           /\ result # Nil
           /\ toolCalls = <<>>
           /\ ~Entered("Compile")
    /\ (~Exists(fs0, in) /\ Entered("StageAsset")) =>
           /\ Returned
           /\ result = Err("open", in, "")
           /\ Exists(fs, out) => Exists(fs0, out)

\* C4: when the external tool exits nonzero or cannot be started, the
\* pipeline fails with the compile or build error that wraps the tool's, the
\* workspace still holds the source and the manifest written, and no
\* deletion of the workspace is done or scheduled.
C4_ToolFailureKeepsWorkspace ==
    (Returned /\ toolCalls # <<>> /\ result.cause \in {"spawn", "exit"}) =>
        LET source == IF strategy = "swift" THEN swiftPath ELSE xcodeSwiftPath
            manifest == IF strategy = "swift" THEN plistPath ELSE xcodePlistPath
        IN /\ result.kind = (IF strategy = "swift" THEN "swift compilation failed"
                                                    ELSE "xcodebuild failed")
           /\ cleanup = "none"
           /\ IsDirAt(fs, tempDir)
           /\ IsFileAt(fs, source) /\ fs[source].content = swiftSaverClass(projName)
           /\ IsFileAt(fs, manifest) /\ fs[manifest].content = infoPlist(projName)
           /\ Within(tempDir, source) /\ Within(tempDir, manifest)

\* The output the direct compiler is expected to leave:
\* <workspace>/<name>.saver/Contents/MacOS/VideoSaver.
ExpectedSwiftOutput ==
    Join(tempDir,
         sanitizeName(name) \o <<".saver", "/", "Contents", "/", "MacOS", "/", "VideoSaver">>)

\* The output the project-based build is expected to leave:
\* <workspace>/build/Release/<name>.saver.
ExpectedXcodeOutput ==
    Join(tempDir, <<"build", "/", "Release", "/">> \o sanitizeName(name) \o <<".saver">>)

ExpectedOutput == IF strategy = "swift" THEN ExpectedSwiftOutput ELSE ExpectedXcodeOutput

\* C5: if the tool reported success and the expected output is absent when
\* it is looked for, the pipeline fails with the output-missing error naming
\* that path and the promotion to the output path is not made; the promotion
\* is only ever started with the expected output present.
C5_OutputMissing ==
    /\ (Returned /\ Entered("Verify") /\ ~Entered("Promote")) =>
           /\ result.kind = (IF strategy = "swift" THEN "executable not created"
                                                    ELSE "expected output not found")
           /\ result.path = ExpectedOutput
           /\ ~Exists(fs, ExpectedOutput)
           /\ postWrites = {}
    /\ pc \in {"swift.CopyBundle", "xcode.CopyBundle"} => Exists(fs, ExpectedOutput)
    /\ result.kind \in {"executable not created", "expected output not found"} =>
           (Entered("Verify") /\ ~Entered("Promote"))

\* The tool exited zero without its output and the run ended with the
\* output-missing error.
C5_Witness ==
    /\ pc = "exited"
    /\ toolCalls # <<>>
    /\ result.kind \in {"executable not created", "expected output not found"}
    /\ exitCode = 1

\* The bundle layout of README.md 121-130 holding media as its payload, by
\* relative path: the kind of each entry, and the content of the payload.
BundleShape(media) ==
    LET c == Lit("Contents") IN
    (<<>> :> [kind |-> "dir", content |-> <<>>])
    @@ (<<c>> :> [kind |-> "dir", content |-> <<>>])
    @@ (<<c, Lit("Info.plist")>> :> [kind |-> "file", content |-> <<>>])
    @@ (<<c, Lit("MacOS")>> :> [kind |-> "dir", content |-> <<>>])
    @@ (<<c, Lit("MacOS"), Lit("VideoSaver")>> :> [kind |-> "file", content |-> <<>>])
    @@ (<<c, Lit("Resources")>> :> [kind |-> "dir", content |-> <<>>])
    @@ (<<c, Lit("Resources"), Lit("payload.mp4")>> :> [kind |-> "file", content |-> media])

\* The shape of the tree at path p: kinds, and the content of the payload.
ShapeAt(f, p) ==
    LET t == Tree(f, p) IN
    [r \in DOMAIN t |->
        [kind |-> t[r].kind,
         content |-> IF r = <<Lit("Contents"), Lit("Resources"), Lit("payload.mp4")>>
                     THEN t[r].content ELSE <<>>]]

\* C6, for the requests whose output path does not exist before the run:
\* after a successful run on an existing input file the tree at the output
\* path is exactly Contents/Info.plist, Contents/MacOS/VideoSaver and
\* Contents/Resources/payload.mp4, the payload equal to the input file.
C6_ExactBundle ==
    (Returned /\ result = Nil /\ Exists(fs0, in) /\ ~Exists(fs0, out)) =>
        ShapeAt(fs, out) = BundleShape(fs0[in].content)

\* C7: after every successful run, in either strategy, the binary of the
\* bundle at the output path has its execute bit set.
C7_ExecutableBit ==
    (Returned /\ result = Nil) =>
        LET bin == out \o <<Lit("Contents"), Lit("MacOS"), Lit("VideoSaver")>>
        IN IsFileAt(fs, bin) /\ fs[bin].exec

\* C8: before promotion everything the pipeline creates or writes lies in
\* the workspace made at Init, whatever the display name; from promotion on
\* it writes at the output path only.
C8_WorkspaceOwnsIntermediates ==
    /\ \A p \in preWrites : Within(TempDirPath, p)
    /\ \A p \in postWrites : Within(out, p)

XcodePcs ==
    {"xcode.MkdirTemp", "xcode.WriteFiles", "xcode.CopyVideo", "xcode.Build", "xcode.Verify",
     "xcode.CopyBundle"}

\* C9: one strategy is run per request and the two are never mixed: at most
\* one external command is run; when swiftc is found the project-based
\* pipeline is never entered, xcodebuild is never run and no project file is
\* written, also after the direct-compiler pipeline failed, and its failure
\* is the result of the request.
C9_OneStrategy ==
    /\ Len(toolCalls) <= 1
    /\ ~(RanSwift /\ RanXcode)
    /\ "swiftc" \in lookPath =>
           /\ pc \notin XcodePcs
           /\ "xcodebuild" \notin ToolsRun
           /\ ~Exists(fs, TempDirPath \o <<Lit("VideoSaver.xcodeproj")>>)
           /\ ~Exists(fs, TempDirPath \o <<Lit("VideoSaver")>>)
           /\ ~Exists(fs, TempDirPath \o <<Lit("build")>>)
           /\ (result \notin {Pending, Nil}) => (Returned /\ exitCode \in {-1, 1})

\* Both tools are found, the direct-compiler pipeline failed after its
\* workspace was made, and the process has exited.
C9_Witness ==
    /\ lookPath = Tools
    /\ pc = "exited"
    /\ Entered("Scaffold")
    /\ result # Nil
    /\ exitCode = 1

AllWhitespace(s) == \A i \in 1..Len(s) : s[i] \in {" ", "\t"}

\* The manifest the selected pipeline writes in its workspace.
WorkspaceManifest == IF strategy = "swift" THEN plistPath ELSE xcodePlistPath

PromotedManifest == out \o <<Lit("Contents"), Lit("Info.plist")>>

HasDefaultName(doc) ==
    /\ CFBundleNameOf(doc) = <<"S", "c", "r", "e", "e", "n", "s", "a", "v", "e", "r">>
    /\ CFBundleIdentifierOf(doc)
         = <<"com.example.", "s", "c", "r", "e", "e", "n", "s", "a", "v", "e", "r">>

\* C10: for an empty or all-whitespace display name the manifest, as written
\* in the workspace and as promoted by a successful run, has CFBundleName
\* "Screensaver" and CFBundleIdentifier "com.example.screensaver".
C10_DefaultName ==
    (AllWhitespace(name) /\ strategy # "none") =>
        /\ (tempDir # <<>> /\ IsFileAt(fs, WorkspaceManifest)) =>
               HasDefaultName(fs[WorkspaceManifest].content)
        /\ (Returned /\ result = Nil) =>
               (IsFileAt(fs, PromotedManifest) /\ HasDefaultName(fs[PromotedManifest].content))

\* A whitespace-only name, not the empty one, went through a successful run.
C10_Witness ==
    /\ AllWhitespace(name) /\ name # <<>>
    /\ pc = "exited"
    /\ result = Nil
    /\ IsFileAt(fs, PromotedManifest)

UpperCase == {"A", "M", "S", "V"}

LowerCaseOf == [c \in UpperCase |-> CASE c = "A" -> "a" [] c = "M" -> "m"
                                      [] c = "S" -> "s" [] c = "V" -> "v"]

\* The manifest is in the workspace as the pipeline wrote it.
ManifestWritten == tempDir # <<>> /\ IsFileAt(fs, WorkspaceManifest) /\ ~Entered("Promote")

\* C11: the bundle identifier of the manifest the pipeline writes is
\* "com.example." followed by a derived part that has no space and no
\* upper-case letter and is, character by character and in order, the
\* sanitized display name without its spaces, each upper-case letter replaced
\* by its lower-case one; "My Video" gives "com.example.myvideo".
C11_BundleIdentifier ==
    ManifestWritten =>
        LET id == CFBundleIdentifierOf(fs[WorkspaceManifest].content)
            NotSpace(c) == c # " "
            kept == SelectSeq(projName, NotSpace)
            derived == SubSeq(id, 2, Len(id))
        IN /\ id # <<>> /\ id[1] = "com.example."
           /\ Len(derived) = Len(kept)
           /\ \A i \in 1..Len(derived) :
                /\ derived[i] # " "
                /\ derived[i] \notin UpperCase
                /\ IF kept[i] \in UpperCase THEN derived[i] = LowerCaseOf[kept[i]]
                                            ELSE derived[i] = kept[i]
           /\ name = <<"M", "y", " ", "V", "i", "d", "e", "o">> =>
                derived = <<"m", "y", "v", "i", "d", "e", "o">>

\* The manifest for "My Video" has been written: a name with a space and
\* with upper-case letters.
C11_Witness ==
    /\ name = <<"M", "y", " ", "V", "i", "d", "e", "o">>
    /\ ManifestWritten
    /\ CFBundleIdentifierOf(fs[WorkspaceManifest].content)
         = <<"com.example.", "m", "y", "v", "i", "d", "e", "o">>

\* The directory the selected pipeline promotes.
Product == IF strategy = "swift" THEN bundlePath ELSE built

\* The content of the file at p, <<"absent">> when there is none.
ContentAt(f, p) == IF IsFileAt(f, p) THEN f[p].content ELSE <<"absent">>

\* The promotion of the product to output path o, no call of it failing.
PromotedTo(o) == copyDir(fs, Product, o, 0, "none")

\* C12: two runs with the same input file and display name are in the same
\* state when they come to promote; whichever output paths they promote to,
\* both promotions succeeding, the manifest at the one output path has the
\* content of the manifest at the other, and so has payload.mp4.
C12_OutputPathIndependent ==
    pc \in {"swift.CopyBundle", "xcode.CopyBundle"} =>
        \A o1, o2 \in OutPaths :
            LET r1 == PromotedTo(o1)
                r2 == PromotedTo(o2)
                manifest == <<Lit("Contents"), Lit("Info.plist")>>
                payload == <<Lit("Contents"), Lit("Resources"), Lit("payload.mp4")>>
            IN (r1.err = "" /\ r2.err = "") =>
                   /\ ContentAt(r1.fs, o1 \o manifest) = ContentAt(r2.fs, o2 \o manifest)
                   /\ ContentAt(r1.fs, o1 \o payload) = ContentAt(r2.fs, o2 \o payload)

\* The call of stage st met an error.
Failed(st) == \E i \in 1..Len(failed) : failed[i] = st

InLog(line) == \E i \in 1..Len(log) : log[i] = line

\* C13: in the direct-compiler pipeline a failed chmod of
\* <out>/Contents/MacOS/VideoSaver is warned about and the pipeline returns
\* nil, and the process exits 0; a failure of any other stage is the last
\* thing the pipeline does and it returns an error.
C13_ChmodNotFatal ==
    strategy = "swift" =>
        /\ Failed("FixPermissions") =>
               /\ Returned /\ result = Nil
               /\ InLog("[warn] Could not set executable permissions")
               /\ pc = "exited" => exitCode = 0
        /\ \A i \in 1..Len(failed) :
               failed[i] # "FixPermissions" =>
                   /\ Returned /\ result \notin {Nil, Pending}
                   /\ stages[Len(stages)] = failed[i]
                   /\ Len(failed) = 1
                   /\ pc = "exited" => exitCode = 1

\* The chmod failed and the process has exited 0.
C13_Witness ==
    /\ strategy = "swift"
    /\ failed = <<"FixPermissions">>
    /\ pc = "exited"
    /\ exitCode = 0

\* The request is a usage error: no subcommand, an empty -in or -out, or a
\* subcommand main does not know.
UsageError == cmd = "" \/ in = EmptyArg \/ out = EmptyArg \/ cmd # "mac"

\* flagSet.Parse ended the process itself.
ParseExited == InLog("Usage of") \/ InLog("flag provided but not defined:")

LastLog == IF log = <<>> THEN "" ELSE log[Len(log)]

FrameworksOf(args) ==
    LET at == {i \in 1..(Len(args) - 1) : args[i] = "-framework"}
        Flagged(i) == (i - 1) \in at
        idx == SelectSeq([i \in 1..Len(args) |-> i], Flagged)
    IN [k \in 1..Len(idx) |-> args[idx[k]]]

\* args without its -framework flags and their names.
WithoutFrameworks(args) ==
    LET Kept(i) == args[i] # "-framework" /\ (i = 1 \/ args[i - 1] # "-framework")
        idx == SelectSeq([i \in 1..Len(args) |-> i], Kept)
    IN [k \in 1..Len(idx) |-> args[idx[k]]]

\* The call passes everything C15 lists but the frameworks.
FixedButFrameworks(c) ==
    /\ c.tool = "swiftc"
    /\ c.dir = tempDir /\ tempDir = TempDirPath
    /\ WithoutFrameworks(c.args) = <<"-emit-library", "-module-name", "VideoSaver", "-o">>
    /\ c.o = Join(bundlePath, <<"Contents", "/", "MacOS", "/", "VideoSaver">>)
    /\ c.rest = <<"VideoSaver.swift">>

\* C15: every call of the direct compiler names three system frameworks and
\* passes -emit-library, -module-name VideoSaver, -o with the path of
\* Contents/MacOS/VideoSaver in the workspace bundle, and VideoSaver.swift,
\* with the workspace as working directory.
C15_FixedArguments ==
    \A i \in 1..Len(toolCalls) :
        toolCalls[i].tool = "swiftc" =>
            /\ FixedButFrameworks(toolCalls[i])
            /\ Len(FrameworksOf(toolCalls[i].args)) = 3

\* The paths in the workspace the pipeline created or wrote.
WorkspaceWrites == {p \in preWrites \cup postWrites : Within(tempDir, p)}

\* C16: once the direct-compiler pipeline has its workspace, the workspace
\* directory and every file and directory the pipeline made in it exist,
\* while the pipeline runs and after it returned nil or an error, and no
\* deletion of the workspace is scheduled; the source file keeps the content
\* written.
C16_WorkspaceKept ==
    (strategy = "swift" /\ tempDir # <<>>) =>
        /\ cleanup = "none"
        /\ IsDirAt(fs, tempDir)
        /\ tempDir \in WorkspaceWrites
        /\ \A p \in WorkspaceWrites : Exists(fs, p)
        /\ Entered("Compile") =>
               (IsFileAt(fs, swiftPath) /\ fs[swiftPath].content = swiftSaverClass(projName))

\* The direct-compiler pipeline succeeded, the process has exited and the
\* workspace is there with the source file in it.
C16_Witness ==
    /\ strategy = "swift"
    /\ pc = "exited"
    /\ result = Nil
    /\ IsDirAt(fs, tempDir)
    /\ IsFileAt(fs, swiftPath)

\* The direct-compiler pipeline failed at the compile step, the process has
\* exited and the workspace is there.
C16_WitnessFailure ==
    /\ strategy = "swift"
    /\ pc = "exited"
    /\ Failed("Compile")
    /\ IsDirAt(fs, tempDir)

\* C17: in the project-based pipeline the deletion of the workspace is
\* scheduled only once the copy to the output path has been done without an
\* error and the pipeline has returned nil; while the pipeline is at the
\* copy, or before it, nothing is scheduled; after a failure of any stage
\* nothing is scheduled, and the workspace and what was made in it exist.
C17_CleanupAfterPromotion ==
    strategy = "xcode" =>
        /\ cleanup # "none" =>
               /\ Entered("Promote") /\ failed = <<>>
               /\ Returned /\ result = Nil
        /\ pc \in XcodePcs => cleanup = "none"
        /\ failed # <<>> => cleanup = "none"
        /\ (cleanup # "done" /\ tempDir # <<>>) =>
               /\ IsDirAt(fs, tempDir)
               /\ \A p \in WorkspaceWrites : Exists(fs, p)

\* The project-based pipeline promoted its product, returned nil, and the
\* deletion then ran: the workspace is gone and the bundle is at the output
\* path.
C17_Witness ==
    /\ strategy = "xcode"
    /\ cleanup = "done"
    /\ result = Nil
    /\ ~Exists(fs, tempDir)
    /\ IsFileAt(fs, PromotedManifest)

\* The promotion failed and the process has exited: nothing was scheduled
\* and the workspace is there.
C17_WitnessFailure ==
    /\ strategy = "xcode"
    /\ Failed("Promote")
    /\ pc = "exited"
    /\ cleanup = "none"
    /\ IsDirAt(fs, tempDir)

\* C18: once the project-based pipeline has scheduled the deletion it has
\* returned nil, and main can go on to print the confirmation and exit 0
\* whether the deletion is pending or done; the result and the exit code are
\* the same either way; when the process has exited with the deletion
\* pending, the deletion cannot run any more and the workspace is still
\* there; the workspace is gone exactly when the deletion ran and succeeded.
C18_FireAndForget ==
    strategy = "xcode" =>
        /\ cleanup # "none" =>
               /\ result = Nil
               /\ pc \in {"returned", "exited"}
               /\ pc = "returned" => ENABLED mainReturn
               /\ pc = "exited" => (exitCode = 0 /\ LastLog = "Built macOS screensaver:")
        /\ (pc = "exited" /\ cleanup = "scheduled") =>
               (IsDirAt(fs, tempDir) /\ ~ENABLED cleanupTask)
        /\ (tempDir # <<>> /\ ~Exists(fs, tempDir)) => cleanup = "done"
        /\ cleanup = "done" => ~Exists(fs, tempDir)

\* The process has exited 0 with the deletion still pending: the workspace
\* is there and stays.
C18_Witness ==
    /\ strategy = "xcode"
    /\ pc = "exited"
    /\ exitCode = 0
    /\ cleanup = "scheduled"
    /\ IsDirAt(fs, tempDir)

\* The deletion ran before main went on: the pipeline had returned nil all
\* the same.
C18_WitnessDeleted ==
    /\ strategy = "xcode"
    /\ pc = "returned"
    /\ result = Nil
    /\ cleanup = "done"

\* The deletion ran and failed, and the process has exited 0.
C18_WitnessFailed ==
    /\ strategy = "xcode"
    /\ pc = "exited"
    /\ exitCode = 0
    /\ cleanup = "failed"
    /\ IsDirAt(fs, tempDir)

\* The stages of the direct-compiler pipeline, in order; Done is the return
\* of nil after the last of them.
SwiftStages ==
    <<"Init", "Scaffold", "StageAsset", "Emit", "Compile", "Verify", "Promote",
      "FixPermissions">>

\* The stage the direct-compiler pipeline is about to run at each of its
\* statements.
SwiftStageAt ==
    [p \in {"swift.MkdirTemp", "swift.Scaffold", "swift.CopyVideo", "swift.Emit",
            "swift.Compile", "swift.Verify", "swift.CopyBundle", "swift.Chmod"} |->
       CASE p = "swift.MkdirTemp" -> 1 [] p = "swift.Scaffold" -> 2
         [] p = "swift.CopyVideo" -> 3 [] p = "swift.Emit" -> 4
         [] p = "swift.Compile" -> 5 [] p = "swift.Verify" -> 6
         [] p = "swift.CopyBundle" -> 7 [] p = "swift.Chmod" -> 8]

C19_WitnessFailure ==
    /\ strategy = "swift"
    /\ failed = <<"Compile">>
    /\ stages = SubSeq(SwiftStages, 1, 5)
    /\ Len(toolCalls) = 1
    /\ pc = "exited"
    /\ exitCode = 1

\* Nothing at or under path p differs between filesystems f and g.
SameUnder(f, g, p) ==
    \A q \in (DOMAIN f) \cup (DOMAIN g) :
        Within(p, q) => (q \in DOMAIN f /\ q \in DOMAIN g /\ f[q] = g[q])

\* C20: when a pipeline of either strategy has returned an error from a
\* stage before Promote, everything at and under the output path is as it was
\* before the run: nothing created, truncated or changed.
C20_OutputUntouchedBeforePromote ==
    (strategy # "none" /\ Returned /\ result # Nil /\ ~Entered("Promote")) =>
        SameUnder(fs, fs0, out)

\* s is an initial part of t.
IsInitialPart(s, t) == Len(s) <= Len(t) /\ s = SubSeq(t, 1, Len(s))

\* What C21 says of the call copyFile(src, dst) made on filesystem f, with
\* the fault the call meets.
CopyFileContract(f, src, dst, fault) ==
    LET r == copyFile(f, src, dst, fault)
        opened == Exists(f, src) /\ fault # "open"
    IN /\ ~opened => (r.err = "open" /\ r.path = src /\ r.fs = f)
       /\ r.err = "" =>
              /\ IsFileAt(r.fs, dst)
              /\ r.fs[dst].content = f[src].content
              /\ \A q \in Prefixes(Dir(dst)) : IsDirAt(r.fs, q)
              /\ \A q \in DOMAIN f : q # dst => r.fs[q] = f[q]
       /\ r.err \in {"read", "write"} =>
              /\ IsFileAt(r.fs, dst)
              /\ IsInitialPart(r.fs[dst].content, f[src].content)
       /\ r.err \in {"mkdir", "open"} =>
              (Exists(r.fs, dst) => (Exists(f, dst) /\ r.fs[dst] = f[dst]))

\* The copyFile calls the pipeline is about to make: of the input to the
\* payload, and of each file of the product to the output path.
CopyFileCalls ==
    IF pc = "swift.CopyVideo" THEN {<<in, payloadPath>>}
    ELSE IF pc = "xcode.CopyVideo" THEN {<<in, payloadDest>>}
    ELSE IF pc \in {"swift.CopyBundle", "xcode.CopyBundle"}
    THEN {<<Product \o WalkOrder(fs, Product)[i], out \o WalkOrder(fs, Product)[i]>> :
            i \in {j \in 1..Len(WalkOrder(fs, Product)) :
                     IsFileAt(fs, Product \o WalkOrder(fs, Product)[j])}}
    ELSE {}

\* C21: copyFile(src, dst) returns the open error and changes nothing when
\* src cannot be opened; when it returns nil, dst is a file with the content
\* src had, every directory on the way to dst exists and nothing else has
\* changed; when it fails after dst was created, dst is still there, empty
\* or with an initial part of the content; when it fails before, dst is as
\* it was.
C21_CopyFile ==
    \A c \in CopyFileCalls : \A fault \in FileFaults :
        CopyFileContract(fs, c[1], c[2], fault)

\* Entry rel of the walk of src in f is at dst in g: a directory as a
\* directory, a file as a file with the content it had in f.
EntryCopied(f, g, src, dst, rel) ==
    IF IsDirAt(f, src \o rel) THEN IsDirAt(g, dst \o rel)
    ELSE IsFileAt(g, dst \o rel) /\ g[dst \o rel].content = f[src \o rel].content

\* Path p is in g as it was in f: absent, or the same node.
Untouched(f, g, p) == IF Exists(f, p) THEN Exists(g, p) /\ g[p] = f[p] ELSE ~Exists(g, p)

\* What C22 says of the call copyDir(src, dst) made on filesystem f for a
\* directory src, with the fault entry failAt of the walk meets.
CopyDirContract(f, src, dst, failAt, fault) ==
    LET r == copyDir(f, src, dst, failAt, fault)
        walk == WalkOrder(f, src)
    IN /\ r.err = "" => \A j \in 1..Len(walk) : EntryCopied(f, r.fs, src, dst, walk[j])
       /\ r.err # "" =>
              \E k \in 1..Len(walk) :
                  /\ r.path \in {src \o walk[k], dst \o walk[k]}
                  /\ \A j \in 1..(k - 1) : EntryCopied(f, r.fs, src, dst, walk[j])
                  /\ \A j \in (k + 1)..Len(walk) : Untouched(f, r.fs, dst \o walk[j])
       /\ failAt # 0 => r.err # ""

\* C22: copyDir(src, dst) on a directory stops at the first entry whose
\* MkdirAll or copyFile fails and returns that error: the entries before it
\* in the walk order are at dst, no entry after it is created or copied;
\* when it returns nil every directory and file of src is at dst under the
\* same relative path, the files with the content they had.
C22_CopyDir ==
    pc \in {"swift.CopyBundle", "xcode.CopyBundle"} =>
        \A w \in WalkFaults(fs, Product) : CopyDirContract(fs, Product, out, w[1], w[2])

\* The file an earlier run left under the output path.
OldRel == <<Lit("Contents"), Lit("old.txt")>>

\* What C23 says of the promotion copyDir(src, dst) made on filesystem f:
\* nothing is deleted, nothing but the targets of the entries of src is
\* changed or created (and the directories on the way to dst), and a
\* directory already at a target stays as it is.
MergeContract(f, src, dst, failAt, fault) ==
    LET r == copyDir(f, src, dst, failAt, fault)
        walk == WalkOrder(f, src)
        targets == {dst \o walk[j] : j \in 1..Len(walk)}
    IN /\ DOMAIN f \subseteq DOMAIN r.fs
       /\ \A p \in DOMAIN f : (p \notin targets \/ IsDirAt(f, p)) => r.fs[p] = f[p]
       /\ \A p \in DOMAIN r.fs : p \notin DOMAIN f => p \in targets \cup Prefixes(dst)

\* C23: the promotion, failing or not, deletes nothing, leaves every entry
\* that is not the target of an entry of the staged bundle as it is, and
\* creates nothing but such targets; once the promotion has run, a file an
\* earlier run left under the output path, not in the staged bundle, is
\* there with its content.
C23_PromotionMerges ==
    /\ pc \in {"swift.CopyBundle", "xcode.CopyBundle"} =>
           \A w \in WalkFaults(fs, Product) : MergeContract(fs, Product, out, w[1], w[2])
    /\ (Entered("Promote") /\ cleanup # "done" /\ IsFileAt(fs0, out \o OldRel)
          /\ ~Exists(fs, Product \o OldRel)) =>
           (IsFileAt(fs, out \o OldRel) /\ fs[out \o OldRel] = fs0[out \o OldRel])
    /\ (Entered("Promote") /\ IsFileAt(fs0, out \o OldRel)) => IsFileAt(fs, out \o OldRel)

\* A run promoted its bundle into an output path an earlier run had left a
\* file under: the bundle is there and the file is as it was.
C23_Witness ==
    /\ pc = "exited"
    /\ result = Nil
    /\ IsFileAt(fs0, out \o OldRel)
    /\ fs[out \o OldRel] = fs0[out \o OldRel]
    /\ IsFileAt(fs, PromotedManifest)
    /\ fs[PromotedManifest].content # <<>>

====
